---- MODULE Spec2Model ----
(***************************************************************************)
(* A model of src/log.ts: the singleton Log facade, its configuration,     *)
(* the shared log queue and the deferred drain (processQueue) that fans    *)
(* every queued entry out to the registered transports.                    *)
(*                                                                         *)
(* JavaScript runs one turn at a time.  A zero-delay timer callback runs    *)
(* processQueue (pc = "drain" at the test of the while loop, "transport"   *)
(* inside a transport.log call); otherwise pc = "idle", and each call of   *)
(* the facade made then is a step of user code.  Calls with no timer       *)
(* callback between them are what one synchronous turn looks like; `turn`  *)
(* counts the timer callbacks started, so two calls carry the same turn    *)
(* exactly when no callback started between them.  The body of a user      *)
(* transport is arbitrary code: while pc = "transport" it may call back    *)
(* into the facade, return, or raise.                                      *)
(***************************************************************************)
EXTENDS Naturals, Sequences, FiniteSets

\* ------------------------------------------------------------------ bounds
\* Number of calls of the facade (debug/info/warn/error, configure,
\* addTransport) and changes of NODE_ENV in one behaviour.
MaxOps == 4

\* ------------------------------------------------------------- data model
\* type LogLevel
LogLevel == {"debug", "info", "warn", "error"}

\* Log.logLevels, the static rank table
logLevels == [debug |-> 0, info |-> 1, warn |-> 2, error |-> 3]

\* The value of an environment variable that is not set.
undefined == "undefined"

\* process.env.LOG_LEVEL as found when the module is loaded: unset, a
\* recognised name, or a name that is none of the four.
EnvLogLevels == {undefined, "info", "error", "verbose"}

\* process.env.NODE_ENV
NodeEnvs == {"development", "production"}

\* Transport objects: the ConsoleTransport built by getInstance and two
\* user transports.
ConsoleTransport == "console"
UserTransports == {"t1", "t2"}

\* The call sites of the program that logs: the method called, its
\* arguments (message, ...optionalParams) and line 3 of the stack that
\* getCallerInfo sees there: "at fn (file:line:col)", "at file:line:col",
\* or a line neither pattern matches.
CallSites ==
  { [method |-> "debug", message |-> "trace", optionalParams |-> <<>>,
     stack |-> [form |-> "other", fn |-> "", file |-> "", line |-> "", col |-> ""]],
    [method |-> "info", message |-> "ready", optionalParams |-> <<>>,
     stack |-> [form |-> "paren", fn |-> "main", file |-> "app.js", line |-> "10", col |-> "5"]],
    [method |-> "warn", message |-> "slow", optionalParams |-> <<"a", "b">>,
     stack |-> [form |-> "bare", fn |-> "", file |-> "lib.js", line |-> "7", col |-> "3"]],
    [method |-> "error", message |-> "boom", optionalParams |-> <<"b", "a", "b">>,
     stack |-> [form |-> "paren", fn |-> "run", file |-> "app.js", line |-> "22", col |-> "9"]] }

\* The Partial<LoggerConfig> values handed to configure.
Partials ==
  { [logLevel |-> "warn", enableCallerInfo |-> FALSE, enableColors |-> FALSE],
    [enableTimestamps |-> FALSE],
    [enableTimestamps |-> TRUE, humanReadableTimestamp |-> FALSE],
    [transports |-> <<"t1">>],
    [transports |-> <<>>] }

ConfigFields ==
  {"logLevel", "enableTimestamps", "enableCallerInfo", "enableColors",
   "transports", "humanReadableTimestamp"}

VARIABLES
  env,          \* process.env: [NODE_ENV, LOG_LEVEL]
  config,       \* Log.config
  logQueue,     \* Log.logQueue
  isProcessing, \* Log.isProcessing
  timers,       \* number of pending setTimeout(() => this.processQueue(), 0)
  pc,           \* what the JavaScript thread is running
  cur,          \* processQueue's logEntry
  fan,          \* the array forEach iterates, with the length it started with
  idx,          \* forEach's index into fan (1-based)
  inv,          \* the arguments of the transport.log call that is running
  ops,          \* calls of the facade and changes of NODE_ENV so far
  turn,         \* timer callbacks started so far
  gen,          \* history: configure calls that replaced the transport list
  accepted,     \* history: number of entries enqueueLog pushed
  rejected,     \* history: number of log calls shouldLog refused
  dispatched,   \* history: the entries processQueue shifted, in order
  delivered,    \* history: the transport.log invocations, in order
  registered    \* history: the addTransport calls, in order

vars ==
  <<env, config, logQueue, isProcessing, timers, pc, cur, fan, idx, inv, ops,
    turn, gen, accepted, rejected, dispatched, delivered, registered>>

histories == <<gen, accepted, rejected, dispatched, delivered, registered>>

\* A queue entry { level, message, meta }.  The fields id (its number among
\* the accepted entries), turn and origin (the call site, configuration and
\* environment of the call that made it, and whether user code or a
\* transport made the call) are not in the program: they record where the
\* entry came from.
NoMeta == [timestamp |-> <<>>, callerInfo |-> <<>>, optionalParams |-> <<>>]

\* No entry is being fanned out.
NoEntry == [level |-> "", message |-> "", meta |-> NoMeta, id |-> 0]

\* No transport.log call is running.
NoCall == [transport |-> "", slot |-> 0, level |-> "", message |-> "", meta |-> NoMeta]

\* -------------------------------------------------------------- getInstance
\* new Log({ logLevel: (process.env.LOG_LEVEL as LogLevel) || 'debug', ... }):
\* the cast is erased at run time, so any set name is taken as it is.
getInstance(envLevel) ==
  [logLevel |-> IF envLevel = undefined THEN "debug" ELSE envLevel,
   enableTimestamps |-> TRUE,
   enableCallerInfo |-> TRUE,
   enableColors |-> TRUE,
   transports |-> <<ConsoleTransport>>,
   humanReadableTimestamp |-> TRUE]

Init ==
  /\ env \in [NODE_ENV : NodeEnvs, LOG_LEVEL : EnvLogLevels]
  /\ config = getInstance(env.LOG_LEVEL)
  /\ logQueue = <<>>
  /\ isProcessing = FALSE
  /\ timers = 0
  /\ pc = "idle"
  /\ cur = NoEntry
  /\ fan = <<>>
  /\ idx = 0
  /\ inv = NoCall
  /\ ops = 0
  /\ turn = 0
  /\ gen = 0
  /\ accepted = 0
  /\ rejected = 0
  /\ dispatched = <<>>
  /\ delivered = <<>>
  /\ registered = <<>>

\* ------------------------------------------------------------------ callers
\* Code that calls the facade runs as user code or inside a transport.
CallerRunning == pc \in {"idle", "transport"}

\* The entries whose fan-out is over (finished or cut short by a raise).
DrainedIds ==
  { dispatched[k].id : k \in 1..Len(dispatched) }
    \ (IF pc = "transport" THEN {cur.id} ELSE {})

\* ---------------------------------------------------------- configuration
\* A spread that merges the transport lists instead of replacing the old one.
SpreadConcat(cfg, options) ==
  [f \in ConfigFields |->
     IF f \in DOMAIN options
       THEN IF f = "transports" THEN cfg[f] \o options[f] ELSE options[f]
       ELSE cfg[f]]

\* { ...this.config, ...options }
Spread(cfg, options) ==
  [f \in ConfigFields |-> IF f \in DOMAIN options THEN options[f] ELSE cfg[f]]

\* Log.configure
configure(options) ==
  /\ CallerRunning
  /\ ops < MaxOps
  /\ config' = Spread(config, options)
  /\ ops' = ops + 1
  /\ gen' = IF "transports" \in DOMAIN options THEN gen + 1 ELSE gen
  /\ UNCHANGED <<env, logQueue, isProcessing, timers, pc, cur, fan, idx, inv,
                 turn, accepted, rejected, dispatched, delivered, registered>>

\* unshift instead of push: the new transport goes first.
Unshift(list, x) == <<x>> \o list

\* A push that is lost.
PushLost(list, x) == list

\* this.config.transports.push(transport)
Push(list, x) == Append(list, x)

\* Log.addTransport
addTransport(transport) ==
  /\ CallerRunning
  /\ ops < MaxOps
  /\ config' = [config EXCEPT !.transports = Push(config.transports, transport)]
  /\ ops' = ops + 1
  /\ registered' =
       Append(registered,
              [transport |-> transport,
               slot |-> Len(config.transports) + 1,
               drained |-> DrainedIds,
               accepted |-> accepted,
               delivered |-> Len(delivered),
               gen |-> gen])
  /\ UNCHANGED <<env, logQueue, isProcessing, timers, pc, cur, fan, idx, inv,
                 turn, gen, accepted, rejected, dispatched, delivered>>

\* The host changes process.env.NODE_ENV.
SetNodeEnv ==
  /\ CallerRunning
  /\ ops < MaxOps
  /\ \E e \in NodeEnvs \ {env.NODE_ENV} : env' = [env EXCEPT !.NODE_ENV = e]
  /\ ops' = ops + 1
  /\ UNCHANGED <<config, logQueue, isProcessing, timers, pc, cur, fan, idx,
                 inv, turn, histories>>

\* ------------------------------------------------------------------ gating
\* > instead of >=.
RankGt(level, threshold) ==
  /\ level \in DOMAIN logLevels
  /\ threshold \in DOMAIN logLevels
  /\ logLevels[level] > logLevels[threshold]

\* a >= b on two table lookups; a lookup of a missing key is undefined and
\* every comparison with undefined is false.
RankGe(level, threshold) ==
  /\ level \in DOMAIN logLevels
  /\ threshold \in DOMAIN logLevels
  /\ logLevels[level] >= logLevels[threshold]

\* shouldLog without the NODE_ENV test.
shouldLogAnyEnv(level) == RankGe(level, config.logLevel)

\* Log.shouldLog
shouldLog(level) ==
  IF env.NODE_ENV = "production"
    THEN FALSE
    ELSE RankGe(level, config.logLevel)

\* ---------------------------------------------------------------- metadata
\* Log.getCallerInfo on stack[3]
getCallerInfo(stack) ==
  IF ~config.enableCallerInfo
    THEN <<"caller info disabled">>
    ELSE IF stack.form = "paren"
      THEN <<stack.fn, stack.file, stack.line>>
      ELSE IF stack.form = "bare"
        THEN <<stack.file, stack.line, stack.col>>
        ELSE <<"unknown">>

\* new Date(): a zero-delay timer fires at least one clock tick after it was
\* set, and the code of one turn runs within a tick, so the clock reads the
\* number of timer callbacks started.
Now == turn

\* getTimestamp without the enableTimestamps test.
getTimestampAlways ==
  IF config.humanReadableTimestamp
    THEN <<"toLocaleString", Now>>
    ELSE <<"toISOString", Now>>

\* Log.getTimestamp
getTimestamp ==
  IF ~config.enableTimestamps
    THEN <<"timestamp disabled">>
    ELSE IF config.humanReadableTimestamp
      THEN <<"toLocaleString", Now>>
      ELSE <<"toISOString", Now>>

\* ----------------------------------------------------------------- enqueue
\* An entry whose meta loses the extra values.
EntryNoParams(level, message, optionalParams, stack) ==
  [level |-> level,
   message |-> message,
   meta |-> [timestamp |-> getTimestamp,
             callerInfo |-> getCallerInfo(stack),
             optionalParams |-> <<>>]]

\* The object literal { level, message, meta } of enqueueLog.
Entry(level, message, optionalParams, stack) ==
  [level |-> level,
   message |-> message,
   meta |-> [timestamp |-> getTimestamp,
             callerInfo |-> getCallerInfo(stack),
             optionalParams |-> optionalParams]]

\* The entry with the record of where it came from.
Tagged(entry, site) ==
  [level |-> entry.level,
   message |-> entry.message,
   meta |-> entry.meta,
   id |-> accepted + 1,
   turn |-> turn,
   origin |-> [site |-> site, config |-> config, env |-> env, from |-> pc]]

\* enqueueLog calling this.processQueue() itself instead of setting a timer.
enqueueLogDirect(site) ==
  /\ logQueue' =
       Append(logQueue,
              Tagged(Entry(site.method, site.message, site.optionalParams,
                           site.stack),
                     site))
  /\ accepted' = accepted + 1
  /\ IF isProcessing
       THEN UNCHANGED <<isProcessing, pc>>
       ELSE isProcessing' = TRUE /\ pc' = "drain"
  /\ UNCHANGED <<timers, rejected>>

\* enqueueLog setting a timer only when none is pending and no drain runs.
enqueueLogOnce(site) ==
  /\ logQueue' =
       Append(logQueue,
              Tagged(Entry(site.method, site.message, site.optionalParams,
                           site.stack),
                     site))
  /\ timers' = IF timers = 0 /\ ~isProcessing THEN 1 ELSE timers
  /\ accepted' = accepted + 1
  /\ UNCHANGED <<isProcessing, pc, rejected>>

\* Log.enqueueLog: push the entry and set a zero-delay timer; setTimeout
\* returns at once, processQueue does not run here.
enqueueLog(site) ==
  /\ logQueue' =
       Append(logQueue,
              Tagged(Entry(site.method, site.message, site.optionalParams,
                           site.stack),
                     site))
  /\ timers' = timers + 1
  /\ accepted' = accepted + 1
  /\ UNCHANGED <<isProcessing, pc, rejected>>

\* The common body of Log.debug / info / warn / error at a call site.
LogMethod(level, site) ==
  /\ CallerRunning
  /\ ops < MaxOps
  /\ site.method = level
  /\ ops' = ops + 1
  /\ IF shouldLog(level)
       THEN enqueueLog(site)
       ELSE /\ rejected' = rejected + 1
            /\ UNCHANGED <<logQueue, timers, accepted, isProcessing, pc>>
  /\ UNCHANGED <<env, config, cur, fan, idx, inv, turn, gen, dispatched,
                 delivered, registered>>

debug == \E site \in CallSites : LogMethod("debug", site)
info == \E site \in CallSites : LogMethod("info", site)
warn == \E site \in CallSites : LogMethod("warn", site)
error == \E site \in CallSites : LogMethod("error", site)

\* ------------------------------------------------------------------- drain
\* A timer fires: processQueue up to the while loop.
processQueue ==
  /\ pc = "idle"
  /\ timers > 0
  /\ timers' = timers - 1
  /\ turn' = turn + 1
  /\ IF isProcessing
       THEN UNCHANGED <<isProcessing, pc>>
       ELSE isProcessing' = TRUE /\ pc' = "drain"
  /\ UNCHANGED <<env, config, logQueue, cur, fan, idx, inv, ops, histories>>

\* pop instead of shift: the newest entry is taken.
Pop(queue) ==
  [entry |-> queue[Len(queue)], rest |-> SubSeq(queue, 1, Len(queue) - 1)]

\* The head is read and stays in the queue.
ShiftKeep(queue) == [entry |-> Head(queue), rest |-> queue]

\* this.logQueue.shift()
Shift(queue) == [entry |-> Head(queue), rest |-> Tail(queue)]

\* An invocation that builds the timestamp again when the entry is handed over.
InvocationFresh(entry, list, k) ==
  [transport |-> list[k],
   slot |-> k,
   level |-> entry.level,
   message |-> entry.message,
   meta |-> [entry.meta EXCEPT !.timestamp = getTimestamp]]

\* transport.log(level, message, meta) on element k of the list.
Invocation(entry, list, k) ==
  [transport |-> list[k],
   slot |-> k,
   level |-> entry.level,
   message |-> entry.message,
   meta |-> entry.meta]

\* A fan-out that walks the list from its end.
forEachBackwards(entry, list, k) ==
  IF k <= Len(list)
    THEN /\ inv' = Invocation(entry, list, Len(list) + 1 - k)
         /\ delivered' =
              Append(delivered,
                     [transport |-> list[Len(list) + 1 - k],
                      slot |-> Len(list) + 1 - k, id |-> entry.id,
                      turn |-> turn])
         /\ cur' = entry
         /\ fan' = list
         /\ idx' = k
         /\ pc' = "transport"
    ELSE /\ inv' = NoCall
         /\ delivered' = delivered
         /\ cur' = NoEntry
         /\ fan' = <<>>
         /\ idx' = 0
         /\ pc' = "drain"

\* forEach at index k of the array it started on: calls transport.log on
\* that element, or is done and control is back at the test of the while loop.
forEachFrom(entry, list, k) ==
  IF k <= Len(list)
    THEN /\ inv' = Invocation(entry, list, k)
         /\ delivered' =
              Append(delivered,
                     [transport |-> list[k], slot |-> k, id |-> entry.id,
                      turn |-> turn])
         /\ cur' = entry
         /\ fan' = list
         /\ idx' = k
         /\ pc' = "transport"
    ELSE /\ inv' = NoCall
         /\ delivered' = delivered
         /\ cur' = NoEntry
         /\ fan' = <<>>
         /\ idx' = 0
         /\ pc' = "drain"

\* The list the facade was constructed with.
ConstructedTransports == getInstance(env.LOG_LEVEL).transports

\* this.config.transports as read when forEach is called.
LiveTransports == config.transports

\* One iteration of the while loop, up to the first transport.log call.
whileBody ==
  /\ pc = "drain"
  /\ logQueue # <<>>
  /\ logQueue' = Shift(logQueue).rest
  /\ dispatched' =
       Append(dispatched,
              [id |-> Shift(logQueue).entry.id,
               transports |-> config.transports,
               gen |-> gen,
               accepted |-> Shift(logQueue).entry.turn,
               from |-> Shift(logQueue).entry.origin.from,
               turn |-> turn])
  /\ forEachFrom(Shift(logQueue).entry, LiveTransports, 1)
  /\ UNCHANGED <<env, config, isProcessing, timers, ops, turn, gen, accepted,
                 rejected, registered>>

\* A loop that may stop while entries are queued (an if for the while).
whileExitAnyway ==
  /\ pc = "drain"
  /\ isProcessing' = FALSE
  /\ pc' = "idle"
  /\ UNCHANGED <<env, config, logQueue, timers, cur, fan, idx, inv, ops, turn,
                 histories>>

\* The while loop finds the queue empty: this.isProcessing = false.
whileExit ==
  /\ pc = "drain"
  /\ logQueue = <<>>
  /\ isProcessing' = FALSE
  /\ pc' = "idle"
  /\ UNCHANGED <<env, config, logQueue, timers, cur, fan, idx, inv, ops, turn,
                 histories>>

\* transport.log returns: forEach goes on with the next element.
transportReturn ==
  /\ pc = "transport"
  /\ forEachFrom(cur, fan, idx + 1)
  /\ UNCHANGED <<env, config, logQueue, isProcessing, timers, ops, turn, gen,
                 accepted, rejected, dispatched, registered>>

\* ConsoleTransport.log only formats and calls console.log; a user
\* transport may raise.
MayRaise(transport) == transport # ConsoleTransport

\* A raise after which the entry is put back at the head of the queue.
transportRaiseRequeue ==
  /\ pc = "transport"
  /\ MayRaise(fan[idx])
  /\ logQueue' = <<cur>> \o logQueue
  /\ pc' = "idle"
  /\ cur' = NoEntry
  /\ fan' = <<>>
  /\ idx' = 0
  /\ inv' = NoCall
  /\ UNCHANGED <<env, config, isProcessing, timers, ops, turn, histories>>

\* transport.log raises: nothing in processQueue catches it, the callback
\* ends and isProcessing keeps its value.
transportRaise ==
  /\ pc = "transport"
  /\ MayRaise(fan[idx])
  /\ pc' = "idle"
  /\ cur' = NoEntry
  /\ fan' = <<>>
  /\ idx' = 0
  /\ inv' = NoCall
  /\ UNCHANGED <<env, config, logQueue, isProcessing, timers, ops, turn,
                 histories>>

\* ------------------------------------------------------------ specification
Next ==
  \/ debug
  \/ info
  \/ warn
  \/ error
  \/ \E options \in Partials : configure(options)
  \/ \E t \in UserTransports : addTransport(t)
  \/ SetNodeEnv
  \/ processQueue
  \/ whileBody
  \/ whileExit
  \/ transportReturn
  \/ transportRaise

Spec == Init /\ [][Next]_vars

\* ------------------------------------------------- the drain loop by itself
\* The same facade with the history variables and the count of operations
\* left alone, so that nothing limits how often a transport calls a log
\* method; the transports return.
MaxQueue == 2

MaxTimers == 2

MaxTurns == 2

MaxTransports == 3

\* setTimeout: one more callback pending.  The count stops at MaxTimers, a
\* value that stands for MaxTimers pending callbacks or more.
SetTimer(n) == IF n < MaxTimers THEN n + 1 ELSE MaxTimers

\* The callbacks still pending when one of n has started.
TimersAfter(n) == IF n = MaxTimers THEN {MaxTimers - 1, MaxTimers} ELSE {n - 1}

\* A log method whose call passes shouldLog, and enqueueLog.
LogMethodLoop(site) ==
  /\ CallerRunning
  /\ Len(logQueue) < MaxQueue
  /\ shouldLog(site.method)
  /\ logQueue' =
       Append(logQueue,
              Entry(site.method, site.message, site.optionalParams,
                    site.stack))
  /\ timers' = SetTimer(timers)
  /\ UNCHANGED <<env, config, isProcessing, pc, cur, fan, idx, inv, ops, turn,
                 histories>>

\* Log.addTransport
addTransportLoop(transport) ==
  /\ CallerRunning
  /\ Len(config.transports) < MaxTransports
  /\ config' = [config EXCEPT !.transports = Push(config.transports, transport)]
  /\ UNCHANGED <<env, logQueue, isProcessing, timers, pc, cur, fan, idx, inv,
                 ops, turn, histories>>

\* A timer fires: processQueue up to the while loop.
processQueueLoop ==
  /\ pc = "idle"
  /\ timers > 0
  /\ turn < MaxTurns
  /\ timers' \in TimersAfter(timers)
  /\ turn' = turn + 1
  /\ IF isProcessing
       THEN UNCHANGED <<isProcessing, pc>>
       ELSE isProcessing' = TRUE /\ pc' = "drain"
  /\ UNCHANGED <<env, config, logQueue, cur, fan, idx, inv, ops, histories>>

\* forEach at index k of the array it started on.
forEachLoop(entry, list, k) ==
  IF k <= Len(list)
    THEN /\ inv' = Invocation(entry, list, k)
         /\ cur' = entry
         /\ fan' = list
         /\ idx' = k
         /\ pc' = "transport"
    ELSE /\ inv' = NoCall
         /\ cur' = NoEntry
         /\ fan' = <<>>
         /\ idx' = 0
         /\ pc' = "drain"

\* One iteration of the while loop, up to the first transport.log call.
whileBodyLoop ==
  /\ pc = "drain"
  /\ logQueue # <<>>
  /\ logQueue' = Shift(logQueue).rest
  /\ forEachLoop(Shift(logQueue).entry, LiveTransports, 1)
  /\ UNCHANGED <<env, config, isProcessing, timers, ops, turn, histories>>

\* transport.log returns: forEach goes on with the next element.
transportReturnLoop ==
  /\ pc = "transport"
  /\ forEachLoop(cur, fan, idx + 1)
  /\ UNCHANGED <<env, config, logQueue, isProcessing, timers, ops, turn,
                 histories>>

NextLoop ==
  \/ \E site \in CallSites : LogMethodLoop(site)
  \/ \E t \in UserTransports : addTransportLoop(t)
  \/ processQueueLoop
  \/ whileBodyLoop
  \/ whileExit
  \/ transportReturnLoop

\* The callback of a timer runs to its end without a pause, and a transport
\* that returns normally does return.
LoopFairness ==
  /\ WF_vars(whileBodyLoop)
  /\ WF_vars(whileExit)
  /\ WF_vars(transportReturnLoop)

LoopSpec == Init /\ [][NextLoop]_vars /\ LoopFairness

\* ------------------------------------------------------------------ claims
\* The entries that are queued or being fanned out.
Pending ==
  { logQueue[k] : k \in 1..Len(logQueue) }
    \cup (IF pc = "transport" THEN {cur} ELSE {})

\* The positions of `delivered` where entry id was handed to slot.
Deliveries(id, slot) ==
  { i \in 1..Len(delivered) : delivered[i].id = id /\ delivered[i].slot = slot }

\* The fan-out of the k-th dispatched entry ran to its end: no transport
\* raised in it and it is not still running.
FanOutOver(k) ==
  \/ k < Len(dispatched)
  \/ pc = "drain"
  \/ pc = "idle" /\ ~isProcessing

\* The ranks of the four levels.
Rank(level) ==
  CASE level = "debug" -> 0
    [] level = "info" -> 1
    [] level = "warn" -> 2
    [] level = "error" -> 3

\* C1: entries are numbered in the order their calls were accepted.  The
\* entries leave the one queue in that order, and no transport is invoked
\* for an entry after it was invoked for an entry accepted later, whatever
\* the levels of the two calls.
C1_FifoAcrossLevels ==
  /\ \A i, j \in 1..Len(dispatched) :
       i < j => dispatched[i].id < dispatched[j].id
  /\ \A i, j \in 1..Len(delivered) :
       (delivered[i].transport = delivered[j].transport
          /\ delivered[i].id < delivered[j].id) => i < j
  /\ \A i, j \in 1..Len(logQueue) :
       i < j => logQueue[i].id < logQueue[j].id

\* Two calls were accepted before any drain, the second at level debug;
\* one transport has been invoked for the first and is being invoked for
\* the second.
C1_Witness ==
  /\ pc = "transport"
  /\ Len(dispatched) = 2
  /\ dispatched[1].accepted = 0
  /\ cur.id = 2
  /\ cur.turn = 0
  /\ cur.level = "debug"
  /\ \E i \in 1..Len(delivered) :
       delivered[i].id = 1 /\ delivered[i].transport = inv.transport

\* C2: with NODE_ENV not "production" and a threshold T among the four
\* levels, a call at level L pushes exactly one entry and sets one timer if
\* rank(L) >= rank(T), and otherwise changes neither the queue nor the
\* timers nor the invocations; so under threshold "warn" only warn and error
\* entries exist.  No entry is handed twice to the same slot of the
\* transport list, and an entry whose fan-out ran to its end was handed
\* exactly once to every slot.
C2_GatingByRank ==
  /\ [](\A e \in Pending :
          e.origin.config.logLevel \in LogLevel
            => Rank(e.level) >= Rank(e.origin.config.logLevel))
  /\ [](\A k \in 1..Len(dispatched) :
          \A slot \in 1..Len(dispatched[k].transports) :
            /\ Cardinality(Deliveries(dispatched[k].id, slot)) <= 1
            /\ FanOutOver(k)
                 => Cardinality(Deliveries(dispatched[k].id, slot)) = 1)
  /\ [][\A site \in CallSites :
          (LogMethod(site.method, site)
             /\ env.NODE_ENV # "production"
             /\ config.logLevel \in LogLevel)
            => IF Rank(site.method) >= Rank(config.logLevel)
                 THEN /\ accepted' = accepted + 1
                      /\ Len(logQueue') = Len(logQueue) + 1
                      /\ logQueue'[Len(logQueue')].level = site.method
                      /\ timers' = timers + 1
                      /\ rejected' = rejected
                 ELSE /\ rejected' = rejected + 1
                      /\ UNCHANGED <<logQueue, timers, accepted, delivered>>]_vars

\* Under threshold "warn" a debug or info call was refused and a warn entry
\* is being handed to a transport.
C2_Witness ==
  /\ pc = "transport"
  /\ cur.level = "warn"
  /\ cur.origin.config.logLevel = "warn"
  /\ config.logLevel = "warn"
  /\ env.LOG_LEVEL = undefined
  /\ env.NODE_ENV = "development"
  /\ rejected = 1
  /\ ops = 3

\* C3: while NODE_ENV is "production" a log call at any level under any
\* threshold pushes no entry, sets no timer and invokes no transport; no
\* entry in the queue or in a fan-out comes from a call made in production.
C3_ProductionKillSwitch ==
  /\ [](\A e \in Pending : e.origin.env.NODE_ENV # "production")
  /\ [][\A site \in CallSites :
          (LogMethod(site.method, site) /\ env.NODE_ENV = "production")
            => /\ rejected' = rejected + 1
               /\ UNCHANGED <<logQueue, timers, accepted, dispatched,
                              delivered, inv, pc, isProcessing>>]_vars

\* In production since the start, under threshold "debug", two log calls
\* were made and nothing was queued, scheduled or invoked.
C3_Witness ==
  /\ env.NODE_ENV = "production"
  /\ config.logLevel = "debug"
  /\ rejected = 2
  /\ ops = 2
  /\ accepted = 0
  /\ timers = 0
  /\ logQueue = <<>>
  /\ delivered = <<>>

\* C4: an accepted entry is never dropped.  When no callback is running and
\* no timer is pending, nothing more will happen unless a new call is made:
\* by then every accepted entry has left the queue and has been handed to
\* every transport of the list it was fanned out to, once each.
C4_AcceptedNeverDropped ==
  (pc = "idle" /\ timers = 0)
    => /\ logQueue = <<>>
       /\ { dispatched[k].id : k \in 1..Len(dispatched) } = 1..accepted
       /\ \A k \in 1..Len(dispatched) :
            \A slot \in 1..Len(dispatched[k].transports) :
              Cardinality(Deliveries(dispatched[k].id, slot)) = 1

\* C5 as stated: no transport is invoked within a log call, and every entry
\* is dispatched in a later turn than the one its call was made in.
C5_DispatchOnlyInLaterTurn ==
  \A k \in 1..Len(dispatched) : dispatched[k].turn > dispatched[k].accepted

\* C5 amended: a log call invokes no transport and starts no drain before
\* it returns.  An entry accepted from user code is dispatched by a timer
\* callback that starts after the call; an entry accepted from inside a
\* transport.log call is dispatched after that call, and never in an
\* earlier callback than the one it was accepted in.
C5_NoTransportInsideCall ==
  /\ [](\A k \in 1..Len(dispatched) :
          /\ dispatched[k].turn >= dispatched[k].accepted
          /\ dispatched[k].from = "idle"
               => dispatched[k].turn > dispatched[k].accepted)
  /\ [][\A site \in CallSites :
          LogMethod(site.method, site)
            => UNCHANGED <<dispatched, delivered, inv, cur, fan, idx, pc,
                           isProcessing, turn>>]_vars

\* An entry accepted from inside a transport.log call has been dispatched by
\* the drain that was running, after an entry accepted from user code.
C5_Witness ==
  /\ Len(dispatched) = 2
  /\ dispatched[1].from = "idle"
  /\ dispatched[1].turn > dispatched[1].accepted
  /\ dispatched[2].from = "transport"
  /\ dispatched[2].turn = dispatched[2].accepted

\* C6: when LOG_LEVEL is set to a name that is none of the four levels, the
\* threshold is "debug": as long as only log calls have been made and
\* NODE_ENV is not "production", every log call is accepted.
C6_UnknownLevelFallsBack ==
  [][\A site \in CallSites :
       (LogMethod(site.method, site)
          /\ env.LOG_LEVEL \notin LogLevel
          /\ env.NODE_ENV # "production"
          /\ ops = accepted + rejected)
         => accepted' = accepted + 1]_vars

\* C7: configure(options) sets every field of options, keeps every other
\* field, replaces the transport list by the given one when options has
\* one, and leaves the queue, the timers and the processing state alone.
C7_ConfigureFrame ==
  [][\A options \in Partials :
       configure(options)
         => /\ \A f \in DOMAIN options : config'[f] = options[f]
            /\ \A f \in ConfigFields \ DOMAIN options : config'[f] = config[f]
            /\ DOMAIN config' = ConfigFields
            /\ UNCHANGED <<logQueue, isProcessing, timers, pc, cur, fan, idx,
                           inv, dispatched, delivered>>]_vars

\* The list held two transports and configure replaced it by <<"t1">>;
\* another configure changed the threshold and left the list alone.
C7_Witness ==
  /\ gen = 1
  /\ ops = 3
  /\ Len(registered) = 1
  /\ config.transports = <<"t1">>
  /\ config.logLevel = "warn"
  /\ config.enableTimestamps
  /\ env.LOG_LEVEL = undefined

\* C8: addTransport(t) makes the transport list the old list followed by t
\* and changes no other configuration field, nor the queue, the timers or
\* the processing state.
C8_AddTransportAppends ==
  [][\A t \in UserTransports :
       addTransport(t)
         => /\ config'.transports = config.transports \o <<t>>
            /\ \A f \in ConfigFields \ {"transports"} : config'[f] = config[f]
            /\ UNCHANGED <<logQueue, isProcessing, timers, pc, cur, fan, idx,
                           inv, dispatched, delivered>>]_vars

\* Two transports were added after the console transport.
C8_Witness ==
  /\ Len(registered) = 2
  /\ config.transports = <<ConsoleTransport, "t1", "t2">>

\* C9: for a transport registered by addTransport, no entry whose fan-out
\* was over at that time is handed to any transport afterwards; and an
\* entry accepted after the registration, fanned out with the list not
\* replaced in between and with its fan-out run to the end, has been handed
\* to the new transport at its slot.
C9_OnlyLaterEntriesReachNewTransport ==
  \A g \in 1..Len(registered) :
    /\ \A i \in 1..Len(delivered) :
         i > registered[g].delivered
           => delivered[i].id \notin registered[g].drained
    /\ \A k \in 1..Len(dispatched) :
         (dispatched[k].id > registered[g].accepted
            /\ dispatched[k].gen = registered[g].gen
            /\ FanOutOver(k))
           => \E i \in Deliveries(dispatched[k].id, registered[g].slot) :
                delivered[i].transport = registered[g].transport

\* A first entry was drained, then t1 was added, then a second entry was
\* accepted and drained: t1 got the second entry only.
C9_Witness ==
  /\ Len(registered) = 1
  /\ registered[1].transport = "t1"
  /\ registered[1].drained = {1}
  /\ registered[1].accepted = 1
  /\ Len(dispatched) = 2
  /\ FanOutOver(2)
  /\ \E i \in 1..Len(delivered) :
       delivered[i].id = 2 /\ delivered[i].transport = "t1"
  /\ \A i \in 1..Len(delivered) :
       delivered[i].transport = "t1" => delivered[i].id = 2

\* C10: an entry carries the marker "timestamp disabled" exactly when
\* enableTimestamps was false at its log call, and otherwise the clock read
\* at that call, in the format chosen then; a transport is handed the same
\* timestamp.
C10_TimestampFollowsFlagAtCall ==
  /\ \A e \in Pending :
       IF e.origin.config.enableTimestamps
         THEN e.meta.timestamp
                = <<IF e.origin.config.humanReadableTimestamp
                      THEN "toLocaleString" ELSE "toISOString",
                    e.turn>>
         ELSE e.meta.timestamp = <<"timestamp disabled">>
  /\ pc = "transport" => inv.meta.timestamp = cur.meta.timestamp

\* After configure({enableTimestamps: false}) an entry got the marker, and
\* after timestamps were enabled again the next entry got the clock.
C10_Witness ==
  /\ Len(logQueue) = 2
  /\ logQueue[1].meta.timestamp = <<"timestamp disabled">>
  /\ logQueue[2].meta.timestamp = <<"toISOString", 0>>
  /\ config.enableTimestamps

\* The queue entries and the entry being fanned out carry what was given to
\* the log call they come from.
CarriesCallArguments(e) ==
  /\ e.level = e.origin.site.method
  /\ e.message = e.origin.site.message
  /\ e.meta.optionalParams = e.origin.site.optionalParams

\* C11: an entry holds the level of the method called, the message and the
\* extra values of the call in their order, and every transport.log for the
\* entry is given that level, that message and the entry's one meta object,
\* so all transports of an entry see the same metadata.
C11_RoundTrip ==
  /\ \A e \in Pending : CarriesCallArguments(e)
  /\ pc = "transport" =>
       /\ inv.level = cur.origin.site.method
       /\ inv.message = cur.origin.site.message
       /\ inv.meta.optionalParams = cur.origin.site.optionalParams
       /\ inv.meta = cur.meta

\* The second transport of the list is handed error("boom", "b", "a", "b").
C11_Witness ==
  /\ pc = "transport"
  /\ inv.slot = 2
  /\ inv.level = "error"
  /\ inv.message = "boom"
  /\ inv.meta.optionalParams = <<"b", "a", "b">>

\* C12: whenever no drain loop is executing (no timer callback is on the
\* stack), isProcessing is false, also after a transport raised.
C12_IdleWhenNoDrainRuns ==
  pc = "idle" => ~isProcessing

\* C13: the step in which a transport raises ends the callback and changes
\* neither the queue nor the record of invocations: no later transport is
\* invoked for the entry, the entry is not back in the queue, and the entries
\* behind it stay queued; from then on every accepted entry that was not
\* taken out for dispatch is still in the queue.
C13_RaiseInterruptsOnlyThePass ==
  /\ [](pc = "idle" /\ isProcessing
          => /\ accepted = Len(dispatched) + Len(logQueue)
             /\ \A k \in 1..Len(logQueue) :
                  logQueue[k].id > dispatched[Len(dispatched)].id)
  /\ [][pc = "transport" /\ pc' = "idle"
          => /\ logQueue' = logQueue
             /\ delivered' = delivered
             /\ dispatched' = dispatched
             /\ \A k \in 1..Len(logQueue') : logQueue'[k].id # cur.id]_vars

\* The first of two transports raised on an entry: the second was never
\* invoked for it and the entry behind it is still queued.
C13_Witness ==
  /\ pc = "idle"
  /\ isProcessing
  /\ Len(dispatched) = 1
  /\ Len(dispatched[1].transports) = 2
  /\ Deliveries(1, 1) # {}
  /\ Deliveries(1, 2) = {}
  /\ Len(logQueue) = 1
  /\ logQueue[1].id = 2

\* C14 as stated: at most one drain is pending or in progress.
C14_AtMostOneDrainPendingOrRunning ==
  timers + (IF pc # "idle" THEN 1 ELSE 0) <= 1

\* C14: every accepted log call sets one timer, whether or not a timer is
\* pending or a drain is running, so the callbacks pending and the callbacks
\* started together number the accepted calls; while a drain loop runs
\* isProcessing is set, which makes a callback entered then return at once.
C14_OneTimerPerAcceptedCall ==
  /\ timers + turn = accepted
  /\ pc # "idle" => isProcessing

\* Two callbacks are pending while a drain loop is inside a transport.
C14_Witness ==
  /\ pc = "transport"
  /\ timers = 2
  /\ accepted = 3

\* C15: the entries accepted from user code in one turn are all taken out by
\* the callback that starts the next turn, each once, and the transports are
\* invoked for an entry in that callback only; when a drain loop has ended
\* nothing accepted in an earlier turn is left in the queue, so a further
\* callback of that turn finds it empty.
C15_OneTurnOnePass ==
  /\ \A k \in 1..Len(dispatched) :
       /\ dispatched[k].id = k
       /\ dispatched[k].from = "idle"
            => dispatched[k].turn = dispatched[k].accepted + 1
  /\ \A i \in 1..Len(delivered) :
       delivered[i].turn = dispatched[delivered[i].id].turn
  /\ pc = "idle" /\ ~isProcessing
       => \A k \in 1..Len(logQueue) : logQueue[k].turn = turn

\* Two entries accepted before the first callback were both dispatched by it,
\* and the second callback has run and found nothing.
C15_Witness ==
  /\ pc = "idle"
  /\ ~isProcessing
  /\ turn = 2
  /\ timers = 0
  /\ Len(dispatched) = 2
  /\ dispatched[1].accepted = 0
  /\ dispatched[2].accepted = 0
  /\ dispatched[2].from = "idle"
  /\ dispatched[1].turn = 1
  /\ dispatched[2].turn = 1
  /\ Len(delivered) >= 2

\* C16: an entry accepted from inside a transport is taken out by the drain
\* loop that was running then, after every entry accepted before it, and no
\* such entry is in the queue once that loop has ended.
C16_ReentrantEntryJoinsRunningPass ==
  /\ \A k \in 1..Len(dispatched) :
       dispatched[k].from = "transport"
         => /\ dispatched[k].turn = dispatched[k].accepted
            /\ \A j \in 1..(k - 1) : dispatched[j].id < dispatched[k].id
  /\ pc = "idle" /\ ~isProcessing
       => \A k \in 1..Len(logQueue) : logQueue[k].origin.from = "idle"

\* A transport logged while the first entry was fanned out; the same loop
\* dispatched that entry too, ended, and the callback it set is still to come.
C16_Witness ==
  /\ pc = "idle"
  /\ ~isProcessing
  /\ logQueue = <<>>
  /\ timers = 1
  /\ turn = 1
  /\ Len(dispatched) = 2
  /\ dispatched[2].from = "transport"
  /\ dispatched[2].turn = 1
  /\ Deliveries(2, 1) # {}

\* C17: every transport.log is made on the element, at its position, of the
\* list that config.transports held when the fan-out of the entry started,
\* and a fan-out that ran to its end covered that list once; a change made
\* by configure or addTransport during a drain loop is therefore seen by
\* every entry taken out after it.
C17_LiveTransportList ==
  /\ \A i \in 1..Len(delivered) :
       LET d == dispatched[delivered[i].id]
       IN /\ delivered[i].slot \in 1..Len(d.transports)
          /\ delivered[i].transport = d.transports[delivered[i].slot]
  /\ \A k \in 1..Len(dispatched) :
       FanOutOver(k)
         => \A slot \in 1..Len(dispatched[k].transports) :
              Cardinality(Deliveries(dispatched[k].id, slot)) = 1
  /\ pc = "transport" => fan = dispatched[cur.id].transports

\* The list changed while the first of two entries was fanned out: the
\* second entry, taken out by the same loop, went to the changed list.
C17_Witness ==
  /\ Len(dispatched) = 2
  /\ dispatched[1].turn = dispatched[2].turn
  /\ dispatched[1].transports = <<"console">>
  /\ dispatched[2].transports # dispatched[1].transports
  /\ Len(dispatched[2].transports) >= 1
  /\ FanOutOver(2)
  /\ \E i \in 1..Len(delivered) :
       delivered[i].id = 2 /\ delivered[i].transport # "console"

\* C18: the invocations are made entry by entry, and within an entry in the
\* order of the list: of two invocations the later one is for a later entry
\* or for the same entry at a higher position, and the positions of an entry
\* are taken up from the first without a gap.
C18_EntryMajorListOrder ==
  /\ \A i \in 1..Len(delivered) : \A j \in (i + 1)..Len(delivered) :
       \/ delivered[i].id < delivered[j].id
       \/ /\ delivered[i].id = delivered[j].id
          /\ delivered[i].slot < delivered[j].slot
  /\ \A i \in 1..Len(delivered) :
       delivered[i].slot > 1
         => /\ i > 1
            /\ delivered[i - 1].id = delivered[i].id
            /\ delivered[i - 1].slot = delivered[i].slot - 1

\* Two entries went to two transports each: 1/1, 1/2, 2/1, 2/2.
C18_Witness ==
  /\ Len(delivered) = 4
  /\ delivered[2].id = 1
  /\ delivered[2].slot = 2
  /\ delivered[3].id = 2
  /\ delivered[3].slot = 1
  /\ delivered[4].slot = 2

\* The caller information getCallerInfo gives under the configuration of the
\* log call.
CallerInfoAtCall(e) ==
  IF ~e.origin.config.enableCallerInfo
    THEN <<"caller info disabled">>
    ELSE CASE e.origin.site.stack.form = "paren"
                -> <<e.origin.site.stack.fn, e.origin.site.stack.file,
                     e.origin.site.stack.line>>
           [] e.origin.site.stack.form = "bare"
                -> <<e.origin.site.stack.file, e.origin.site.stack.line,
                     e.origin.site.stack.col>>
           [] OTHER -> <<"unknown">>

\* The timestamp getTimestamp gives under the configuration and at the clock
\* of the log call.
TimestampAtCall(e) ==
  IF ~e.origin.config.enableTimestamps
    THEN <<"timestamp disabled">>
    ELSE <<IF e.origin.config.humanReadableTimestamp
             THEN "toLocaleString" ELSE "toISOString",
           e.turn>>

\* C19: an entry in the queue or in fan-out passed the gate of its call and
\* holds the level, message and metadata computed at that call, whatever
\* configure or the environment did since; a transport is handed exactly
\* that; and no accepted entry has left the queue other than by dispatch.
C19_FixedAtCall ==
  /\ \A e \in Pending :
       /\ e.origin.env.NODE_ENV # "production"
       /\ CarriesCallArguments(e)
       /\ e.meta.timestamp = TimestampAtCall(e)
       /\ e.meta.callerInfo = CallerInfoAtCall(e)
  /\ pc = "transport" =>
       /\ inv.level = cur.level
       /\ inv.message = cur.message
       /\ inv.meta = [timestamp |-> TimestampAtCall(cur),
                      callerInfo |-> CallerInfoAtCall(cur),
                      optionalParams |-> cur.origin.site.optionalParams]
  /\ accepted = Len(dispatched) + Len(logQueue)

\* info("ready") was accepted, then the threshold was raised to warn with
\* caller information off and production was switched on; the entry still
\* reaches a transport with the metadata of its call.
C19_Witness ==
  /\ pc = "transport"
  /\ env.NODE_ENV = "production"
  /\ config.logLevel = "warn"
  /\ ~config.enableCallerInfo
  /\ inv.level = "info"
  /\ inv.meta.callerInfo = <<"main", "app.js", "10">>
  /\ inv.meta.timestamp = <<"toLocaleString", 0>>

\* The facade is Idle with nothing queued.
IdleAndEmpty ==
  pc = "idle" /\ ~isProcessing /\ logQueue = <<>>

\* A log method is called from inside a transport and its entry is queued.
ReentrantLog ==
  pc = "transport" /\ Len(logQueue') > Len(logQueue)

\* C20 as stated: with transports that return, every drain loop that has
\* started comes to an end, the facade Idle and the queue empty.
C20_EveryDrainPassEnds ==
  (pc # "idle") ~> IdleAndEmpty

\* C20: with transports that return, every drain loop that has started comes
\* to an end, the facade Idle and the queue empty, unless the transports go
\* on for ever calling log methods from inside their invocations.
C20_DrainPassEndsUnlessFedForEver ==
  (<>[][~ReentrantLog]_vars) => ((pc # "idle") ~> IdleAndEmpty)

\* A drain loop is at its test with the queue empty and about to exit, one
\* more callback still pending.
C20_Witness ==
  /\ pc = "drain"
  /\ isProcessing
  /\ logQueue = <<>>
  /\ turn = 1
  /\ timers >= 1

====
